---- MODULE Spec2Model ----
\* Model of izuka_llm: the ReAct agent graph of agents/character.py and the
\* OpenAI-compatible facade of app/openai_compatable.py.
\*
\* Strings whose length or content matters are sequences of Unicode code
\* points (a Python str); model names, roles and node names are TLA+ strings.
EXTENDS Integers, Sequences, FiniteSets, TLC

VARIABLES
    messages,     \* AgentState["messages"] of the running graph
    checkpoint,   \* MemorySaver: the messages persisted for thread "1"
    pc,           \* position of the run
    turns,        \* number of model invocations made so far
    invocation,   \* number of calls of app.stream made for the thread
    err,          \* the exception that ended the run, "none" if none
    lastBatch,    \* the tool calls, failures and start index of the last tool step
    request,      \* ChatCompletionRequest handed to create_chat_completion
    response,     \* what create_chat_completion produced
    llm_calls     \* number of calls of fake_llm_call

agentVars == <<messages, checkpoint, pc, turns, invocation, err, lastBatch>>
facadeVars == <<request, response, llm_calls>>
vars == <<messages, checkpoint, pc, turns, invocation, err, lastBatch,
          request, response, llm_calls>>

\* ---------------------------------------------------------------- bounds
MaxTurns == 3        \* model invocations explored per thread
MaxCalls == 2        \* tool calls the model may attach to one response
MaxMessages == 2     \* messages of one chat-completion request
MaxContentLen == 1   \* code points of one request message content

\* ------------------------------------------------------- generic helpers
Last(s) == s[Len(s)]

IsPrefix(s, t) == Len(s) <= Len(t) /\ SubSeq(t, 1, Len(s)) = s

\* =====================================================================
\* Agent loop (agents/character.py)
\* =====================================================================

\* langgraph.graph.END, the sentinel should_continue returns
END == "__end__"

\* the tool calls carried by all the messages of a conversation
RECURSIVE CallsIssued(_)
CallsIssued(msgs) ==
    IF msgs = <<>> THEN 0
    ELSE CallsIssued(SubSeq(msgs, 1, Len(msgs) - 1)) + Len(Last(msgs).tool_calls)

\* the n tool calls of one model response; the backend gives every call an
\* id of its own, which correlates call and result
FreshCalls(msgs, n) == [i \in 1..n |-> [id |-> CallsIssued(msgs) + i]]

HumanMessage(c) == [type |-> "human", content |-> c, tool_calls |-> <<>>, tool_call_id |-> 0]
AIMessage(calls) == [type |-> "ai", content |-> <<>>, tool_calls |-> calls, tool_call_id |-> 0]
ToolMessage(c, id) == [type |-> "tool", content |-> c, tool_calls |-> <<>>, tool_call_id |-> id]

\* the question of __main__, abstracted to one code point
initial_messages == <<HumanMessage(<<63>>)>>

\* what model.invoke may answer: an AI message with 0..MaxCalls tool calls
ModelResponses(msgs) == {AIMessage(FreshCalls(msgs, n)) : n \in 0..MaxCalls}

\* operator.add, the reducer of AgentState.messages
add_replace(old, new) == new
add(old, new) == old \o new

\* "Error: "
ErrorPrefix == <<69, 114, 114, 111, 114, 58, 32>>

\* what a tool returns (or the exception carries) for a call, as str(output) or
\* repr(output) shows it: the tools are not part of the source, the value
\* stands for any text that identifies the call (the character '0' + id)
ToolValue(call) == <<48 + call.id>>

\* tool_executor.batch(calls, return_exceptions=True): the calls run in the
\* completion order `order` (a permutation of their indices); the output of
\* call i is stored at position i whatever the order
batch_completion_order(calls, raised, order) ==
    [k \in 1..Len(calls) |->
        [exc |-> order[k] \in raised, val |-> ToolValue(calls[order[k]])]]
batch(calls, raised, order) ==
    [i \in 1..Len(calls) |-> [exc |-> i \in raised, val |-> ToolValue(calls[i])]]

\* tools_node: one ToolMessage per (output, tool_call) pair of the zip
tools_node_drop_failed(calls, outputs) ==
    LET ok == {i \in 1..Len(calls) : ~outputs[i].exc}
        F[i \in 0..Len(calls)] ==
            IF i = 0 THEN <<>>
            ELSE IF i \in ok
                 THEN Append(F[i - 1], ToolMessage(outputs[i].val, calls[i].id))
                 ELSE F[i - 1]
    IN F[Len(calls)]
tools_node(calls, outputs) ==
    [i \in 1..Len(calls) |->
        IF outputs[i].exc
        THEN ToolMessage(ErrorPrefix \o outputs[i].val, calls[i].id)
        ELSE ToolMessage(outputs[i].val, calls[i].id)]

\* should_continue: "tools" when the last message carries tool calls, else END
\* (a message without the attribute tool_calls is one whose tool_calls is <<>>)
should_continue_needs_two(msgs) ==
    IF Len(Last(msgs).tool_calls) >= 2 THEN "tools" ELSE END
should_continue(msgs) ==
    IF Last(msgs).tool_calls # <<>> THEN "tools" ELSE END

\* the mapping handed to add_conditional_edges: its second key is the literal
\* string "END", not the sentinel
path_map == [r \in {"tools", "END"} |-> IF r = "tools" THEN "tools" ELSE END]

\* workflow.add_edge("tools", "agent")
edges_tools_to_end == [n \in {"tools"} |-> END]
edges == [n \in {"tools"} |-> "agent"]

\* workflow.compile(..., interrupt_before=["tools"])
interrupt_before_none == {}
interrupt_before == {"tools"}

\* the position a node name stands for
NodePc(n) ==
    CASE n = "agent" -> "Thinking"
      [] n = "tools" -> "ExecutingTools"
      [] n = END -> "Done"

Perms(n) == {f \in [1..n -> 1..n] : \A i, j \in 1..n : f[i] = f[j] => i = j}

NoBatch == [calls |-> <<>>, raised |-> {}, at |-> 0, reordered |-> FALSE]

\* ------------------------------------------------------------ facade idle
IdleRequest == [model |-> "gpt-4", messages |-> <<>>]
NoResponse == [status_code |-> 0]

Init ==
    /\ messages = <<>>
    /\ checkpoint = <<>>
    /\ pc = "Idle"
    /\ turns = 0
    /\ invocation = 0
    /\ err = "none"
    /\ lastBatch = NoBatch
    /\ request = IdleRequest
    /\ response = NoResponse
    /\ llm_calls = 0

\* app.stream({"messages": initial_messages}, thread): the input goes through
\* the reducer and the entry point "agent" is scheduled
Start ==
    /\ pc = "Idle"
    /\ messages' = add(checkpoint, initial_messages)
    /\ checkpoint' = add(checkpoint, initial_messages)
    /\ pc' = NodePc("agent")
    /\ invocation' = invocation + 1
    /\ UNCHANGED <<turns, err, lastBatch>>
    /\ UNCHANGED facadeVars

\* agent_node: one model invocation, its response appended
AgentStep ==
    /\ pc = "Thinking"
    /\ turns < MaxTurns
    /\ \E resp \in ModelResponses(messages) :
          messages' = add(messages, <<resp>>)
    /\ pc' = "AwaitingToolDecision"
    /\ turns' = turns + 1
    /\ UNCHANGED <<checkpoint, invocation, err, lastBatch>>
    /\ UNCHANGED facadeVars

\* model.invoke raises: nothing catches it, the run ends
AgentFail ==
    /\ pc = "Thinking"
    /\ turns < MaxTurns
    /\ pc' = "Error"
    /\ err' = "ModelError"
    /\ turns' = turns + 1
    /\ UNCHANGED <<messages, checkpoint, invocation, lastBatch>>
    /\ UNCHANGED facadeVars

\* the conditional edge after "agent": should_continue's value is looked up in
\* path_map; a value that is no key raises KeyError; a destination listed in
\* interrupt_before suspends the run with the state persisted
Route ==
    /\ pc = "AwaitingToolDecision"
    /\ LET r == should_continue(messages) IN
        IF r \notin DOMAIN path_map
        THEN /\ pc' = "Error"
             /\ err' = "KeyError"
             /\ UNCHANGED checkpoint
        ELSE /\ pc' = IF path_map[r] \in interrupt_before
                      THEN "Suspended"
                      ELSE NodePc(path_map[r])
             /\ checkpoint' = messages
             /\ UNCHANGED err
    /\ UNCHANGED <<messages, turns, invocation, lastBatch>>
    /\ UNCHANGED facadeVars

\* app.stream(None, thread): the run resumes from the persisted state at the
\* node it was suspended before. __main__ makes no such call; it is what a
\* caller of the compiled app does to continue a suspended thread
Resume ==
    /\ pc = "Suspended"
    /\ messages' = checkpoint
    /\ pc' = NodePc("tools")
    /\ invocation' = invocation + 1
    /\ UNCHANGED <<checkpoint, turns, err, lastBatch>>
    /\ UNCHANGED facadeVars

\* tools_node: the calls of the last message are executed as a batch, each
\* outcome (result or exception) becomes a ToolMessage, then the edge
\* "tools" -> "agent" is followed
ToolStep ==
    /\ pc = "ExecutingTools"
    /\ LET calls == Last(messages).tool_calls IN
        \E raised \in SUBSET (1..Len(calls)), order \in Perms(Len(calls)) :
            /\ messages' = add(messages, tools_node(calls, batch(calls, raised, order)))
            /\ lastBatch' = [calls |-> calls, raised |-> raised, at |-> Len(messages),
                             reordered |-> \E i \in 1..Len(calls) : order[i] # i]
    /\ checkpoint' = messages'
    /\ pc' = NodePc(edges["tools"])
    /\ UNCHANGED <<turns, invocation, err>>
    /\ UNCHANGED facadeVars

Next ==
    \/ Start
    \/ AgentStep
    \/ AgentFail
    \/ Route
    \/ Resume
    \/ ToolStep

Spec == Init /\ [][Next]_vars

\* =====================================================================
\* Chat-completion facade (app/openai_compatable.py, schemas/dto.py)
\* =====================================================================

\* ChatMessage.role
Roles == {"system", "user", "assistant"}

\* code points request contents are built from: 'a' and the apostrophe
Chars == {97, 39}

\* ChatMessage.content: any str, the empty one included
Contents == UNION {[1..k -> Chars] : k \in 0..MaxContentLen}

ChatMessage == [role : Roles, content : Contents]

\* ChatCompletionRequest.model is any str: the supported names and others
ModelNames == {"gpt-3.5-turbo", "gpt-4", "custom-local-model", "gpt-5", "GPT-4", ""}

ChatCompletionRequest ==
    [model : ModelNames, messages : UNION {[1..k -> ChatMessage] : k \in 0..MaxMessages}]

\* the list create_chat_completion checks request.model against
supported_models_with_gpt5 == {"gpt-3.5-turbo", "gpt-4", "custom-local-model", "gpt-5"}
supported_models == {"gpt-3.5-turbo", "gpt-4", "custom-local-model"}

\* the greeting fake_llm_call returns
Greeting == <<20320, 22909, 65281, 26377, 20160, 20040, 21487, 20197, 24110, 21161,
              20320, 30340, 21527, 65311>>

\* the text of the reply template before and after the embedded message
TemplatePrefix == <<36825, 26159, 19968, 20010, 27169, 25311, 22238, 22797, 65292,
                    38024, 23545, 20320, 30340, 38382, 39064, 65306, 39>>
TemplateSuffix == <<39, 12290>>

\* msg.model_dump()
model_dump(msg) == [role |-> msg.role, content |-> msg.content]

\* the loop of fake_llm_call over reversed(messages): the content of the first
\* "user" entry met from the end, "" when the loop ends without one
RECURSIVE last_user_message(_)
last_user_message(msgs) ==
    IF msgs = <<>> THEN <<>>
    ELSE IF Last(msgs)["role"] = "user" THEN Last(msgs)["content"]
    ELSE last_user_message(SubSeq(msgs, 1, Len(msgs) - 1))

\* fake_llm_call
fake_llm_call_any_role(msgs) ==
    IF msgs = <<>> \/ Last(msgs)["content"] = <<>> THEN Greeting
    ELSE TemplatePrefix \o Last(msgs)["content"] \o TemplateSuffix
fake_llm_call(msgs) ==
    IF last_user_message(msgs) = <<>> THEN Greeting
    ELSE TemplatePrefix \o last_user_message(msgs) \o TemplateSuffix

\* sum(len(msg['content']) for msg in messages_dict)
RECURSIVE prompt_tokens_user_only(_)
prompt_tokens_user_only(msgs) ==
    IF msgs = <<>> THEN 0
    ELSE prompt_tokens_user_only(SubSeq(msgs, 1, Len(msgs) - 1))
         + (IF Last(msgs)["role"] = "user" THEN Len(Last(msgs)["content"]) ELSE 0)
RECURSIVE prompt_tokens(_)
prompt_tokens(msgs) ==
    IF msgs = <<>> THEN 0
    ELSE prompt_tokens(SubSeq(msgs, 1, Len(msgs) - 1)) + Len(Last(msgs)["content"])

\* HTTPException(status_code=400, detail=f"Model '{request.model}' not found.")
HTTPException(code, model) ==
    [status_code |-> code, detail |-> <<"Model '", model, "' not found.">>]

\* ChatCompletionResponse; id and created are generated and left out
ChatCompletionResponse(model, content, pt, ct) ==
    [status_code |-> 200,
     object |-> "chat.completion",
     model |-> model,
     choices |-> <<[index |-> 0,
                    message |-> [role |-> "assistant", content |-> content],
                    finish_reason |-> "stop"]>>,
     usage |-> [prompt_tokens |-> pt, completion_tokens |-> ct, total_tokens |-> pt + ct]]

InitFacade ==
    /\ messages = <<>>
    /\ checkpoint = <<>>
    /\ pc = "Idle"
    /\ turns = 0
    /\ invocation = 0
    /\ err = "none"
    /\ lastBatch = NoBatch
    /\ request \in ChatCompletionRequest
    /\ response = NoResponse
    /\ llm_calls = 0

\* POST /v1/chat/completions
create_chat_completion ==
    /\ response = NoResponse
    /\ IF request.model \notin supported_models
       THEN /\ response' = HTTPException(400, request.model)
            /\ UNCHANGED llm_calls
       ELSE LET messages_dict == [i \in 1..Len(request.messages) |->
                                     model_dump(request.messages[i])]
                assistant_response_content == fake_llm_call(messages_dict)
            IN /\ response' = ChatCompletionResponse(
                                  request.model,
                                  assistant_response_content,
                                  prompt_tokens(messages_dict),
                                  Len(assistant_response_content))
               /\ llm_calls' = llm_calls + 1
    /\ UNCHANGED request
    /\ UNCHANGED agentVars

NextFacade ==
    \/ create_chat_completion

SpecFacade == InitFacade /\ [][NextFacade]_vars

\* =====================================================================
\* Properties
\* =====================================================================

\* the tool calls of the entry the agent step appended last
LastCalls == Last(messages).tool_calls

\* C1: when the agent step has appended an assistant entry with zero tool
\* invocations, the routing decision ends the run in Done: no tool step, no
\* further agent step, and no error.
C1_ZeroCallsEndInDone ==
    [][(pc = "AwaitingToolDecision" /\ LastCalls = <<>>)
          => (pc' = "Done" /\ err' = "none")]_vars

\* C2 as stated: when the agent step has appended an assistant entry with one
\* or more tool invocations, routing proceeds to the tool step and the tool step
\* is followed by the agent step, all within the invocation of the graph that
\* ran the agent step.
C2_ToolsWithinOneInvocation ==
    [][/\ (pc = "AwaitingToolDecision" /\ LastCalls # <<>>)
            => (pc' = "ExecutingTools" /\ invocation' = invocation)
       /\ (pc = "ExecutingTools")
            => (pc' = "Thinking" /\ invocation' = invocation)]_vars

\* C2 (amended): when the agent step has appended an assistant entry with one
\* or more tool invocations, routing selects the tool step and the invocation
\* suspends before it; the tool step runs when the thread is resumed, and the
\* tool step is always followed by the agent step within the resuming
\* invocation.
C2_ToolsAfterResumeThenAgent ==
    [][/\ (pc = "AwaitingToolDecision" /\ LastCalls # <<>>)
            => (pc' = "Suspended" /\ invocation' = invocation)
       /\ (pc = "Suspended")
            => (pc' = "ExecutingTools" /\ invocation' = invocation + 1)
       /\ (pc = "ExecutingTools")
            => (pc' = "Thinking" /\ invocation' = invocation)]_vars

\* a tool step of two calls has run in a resumed invocation and the agent step
\* is entered again
C2_Witness ==
    /\ pc = "Thinking"
    /\ Len(lastBatch.calls) = 2
    /\ invocation = 2
    /\ Len(messages) = lastBatch.at + 2

\* the entries the last tool step appended
BatchEntry(i) == messages[lastBatch.at + i]

\* the content starts with "Error: "
HasErrorIndicator(c) ==
    /\ Len(c) >= 7
    /\ SubSeq(c, 1, 7) = <<69, 114, 114, 111, 114, 58, 32>>

\* the tool-result entries of the whole conversation correlated to id
ResultsFor(id) ==
    {k \in 1..Len(messages) : messages[k].type = "tool" /\ messages[k].tool_call_id = id}

\* C6: an invocation that raises yields exactly one tool-result entry, an error
\* indicator correlated to its identifier; every sibling still yields its own
\* entry; the step does not fail and the loop continues with the agent step
\* (which is entered next, and is the only thing that can then fail).
C6_FailureBecomesErrorEntry ==
    lastBatch.calls # <<>> =>
        /\ Len(messages) >= lastBatch.at + Len(lastBatch.calls)
        /\ \A i \in 1..Len(lastBatch.calls) :
              /\ Cardinality(ResultsFor(lastBatch.calls[i].id)) = 1
              /\ ResultsFor(lastBatch.calls[i].id) \subseteq
                    (lastBatch.at + 1)..(lastBatch.at + Len(lastBatch.calls))
              /\ \A k \in ResultsFor(lastBatch.calls[i].id) :
                    HasErrorIndicator(messages[k].content) <=> i \in lastBatch.raised
        /\ Len(messages) = lastBatch.at + Len(lastBatch.calls)
              => \/ (pc = "Thinking" /\ err = "none")
                 \/ (pc = "Error" /\ err = "ModelError")

\* a tool step in which one call raised and a sibling did not
C6_Witness ==
    /\ pc = "Thinking"
    /\ Len(lastBatch.calls) = 2
    /\ Cardinality(lastBatch.raised) = 1
    /\ Len(messages) = lastBatch.at + 2

\* C8: the conversation only grows: across every step (agent step, tool step,
\* suspension, resumption) the sequence held before is a prefix of the sequence
\* held after, for the running state and for the persisted state.
C8_AppendOnly ==
    [][IsPrefix(messages, messages') /\ IsPrefix(checkpoint, checkpoint')]_vars

\* a conversation that went through a suspension, a resumption, a tool step and
\* a second agent step
C8_Witness ==
    /\ pc = "AwaitingToolDecision"
    /\ turns = 2
    /\ invocation = 2
    /\ Len(messages) >= 4

\* C9: the tool step is only ever entered from the suspension before it, and
\* it starts from exactly the conversation persisted at that suspension.
C9_ToolsOnlyAfterSuspension ==
    [][(pc' = "ExecutingTools" /\ pc # "ExecutingTools")
          => /\ pc = "Suspended"
             /\ LastCalls # <<>>
             /\ checkpoint = messages
             /\ messages' = checkpoint
             /\ checkpoint' = checkpoint]_vars

\* the run was suspended and the tool step is about to run on resumption
C9_Witness ==
    /\ pc = "ExecutingTools"
    /\ invocation = 2
    /\ LastCalls # <<>>

\* C10: a tool step over n invocations appends exactly n tool-result entries,
\* the i-th one carrying the identifier and the outcome of the i-th issued
\* invocation, whatever the order the executions complete in.
C10_ResultsInIssueOrder ==
    lastBatch.calls # <<>> =>
        LET n == Len(lastBatch.calls) IN
        /\ Len(messages) >= lastBatch.at + n
        /\ messages[lastBatch.at].tool_calls = lastBatch.calls
        /\ \A i \in 1..n :
              /\ BatchEntry(i).type = "tool"
              /\ BatchEntry(i).tool_call_id = lastBatch.calls[i].id
              /\ BatchEntry(i).content =
                    IF i \in lastBatch.raised
                    THEN <<69, 114, 114, 111, 114, 58, 32, 48 + lastBatch.calls[i].id>>
                    ELSE <<48 + lastBatch.calls[i].id>>
        /\ Len(messages) > lastBatch.at + n
              => messages[lastBatch.at + n + 1].type # "tool"

\* a tool step of two calls that completed in another order than issued, with
\* different outcomes
C10_Witness ==
    /\ Len(lastBatch.calls) = 2
    /\ lastBatch.reordered
    /\ lastBatch.raised = {2}
    /\ Len(messages) = lastBatch.at + 2

\* ---------------------------------------------------------------- facade

\* the positions of the "user" entries of the request
UserPositions == {i \in 1..Len(request.messages) : request.messages[i].role = "user"}

LastUserPosition == CHOOSE i \in UserPositions : \A j \in UserPositions : j <= i

\* the assistant content of a completion
AssistantContent == response.choices[1].message.content

\* C3: with a supported model and at least one "user" entry, whatever its
\* content, the assistant content is the template applied to the content of the
\* last "user" entry.
C3_TemplateOfLastUser ==
    (response.status_code = 200 /\ UserPositions # {}) =>
        AssistantContent =
            TemplatePrefix \o request.messages[LastUserPosition].content \o TemplateSuffix

\* C4: with a supported model and no "user" entry, the assistant content is the
\* greeting.
C4_GreetingWithoutUser ==
    (response.status_code = 200 /\ UserPositions = {}) =>
        /\ AssistantContent = Greeting
        /\ response.choices[1].message.role = "assistant"

\* a completion for a request of a system and an assistant entry with contents
C4_Witness ==
    /\ response.status_code = 200
    /\ Len(request.messages) = 2
    /\ request.messages[1].role = "system"
    /\ request.messages[2].role = "assistant"
    /\ request.messages[1].content # <<>>
    /\ request.messages[2].content # <<>>

\* C5: a model outside the three supported names gives HTTP 400 naming the
\* model, with no call of the generator and no choices or usage; a supported
\* model gives no such error.
C5_UnsupportedModelRejected ==
    response # NoResponse =>
        IF request.model \in {"gpt-3.5-turbo", "gpt-4", "custom-local-model"}
        THEN /\ response.status_code = 200
             /\ llm_calls = 1
        ELSE /\ response.status_code = 400
             /\ response.detail[2] = request.model
             /\ DOMAIN response = {"status_code", "detail"}
             /\ llm_calls = 0

\* a request with messages for a model that differs from a supported one only
\* in case has been rejected
C5_Witness ==
    /\ request.model = "GPT-4"
    /\ request.messages # <<>>
    /\ response.status_code = 400

\* the (entry, character) positions of the request's contents
ContentPositions ==
    UNION {{<<i, j>> : j \in 1..Len(request.messages[i].content)} :
              i \in 1..Len(request.messages)}

\* C7: total_tokens = prompt_tokens + completion_tokens, prompt_tokens is the
\* number of characters of all request contents, completion_tokens the number
\* of characters of the assistant content.
C7_UsageCounts ==
    response.status_code = 200 =>
        /\ response.usage.total_tokens =
              response.usage.prompt_tokens + response.usage.completion_tokens
        /\ response.usage.prompt_tokens = Cardinality(ContentPositions)
        /\ response.usage.completion_tokens = Len(AssistantContent)

\* a completion for a request whose contents of several roles count
C7_Witness ==
    /\ response.status_code = 200
    /\ Len(request.messages) = 2
    /\ request.messages[1].role = "system"
    /\ request.messages[2].role = "user"
    /\ response.usage.prompt_tokens = 2
    /\ response.usage.completion_tokens = 20

====
